---------------------------- MODULE Spec2Model ----------------------------
(***************************************************************************)
(* A model of the M5 starter kit's evaluation code (src/evaluate.py) and   *)
(* of the top-down disaggregation of src/model1.py.                        *)
(*                                                                         *)
(* Tensors are modelled by nested sequences (1-based here, 0-based in the  *)
(* source).  Floating-point numbers are modelled by the extended           *)
(* rationals: an exact fraction, or one of NaN, +inf, -inf, with the IEEE  *)
(* rules for x/0, 0/0, inf*0 and inf/inf.  Rounding and overflow are not   *)
(* modelled.  A square root that is not rational is kept as a tagged       *)
(* radicand (field r = 2).                                                 *)
(***************************************************************************)
EXTENDS Integers, Sequences, FiniteSets, TLC

(***************************************************************************)
(* Bounds of the model.                                                    *)
(***************************************************************************)
\* longest series (time steps)
MaxT == 4
\* largest magnitude of a value of a series handed to the scale estimator
MaxVal == 1
\* largest raw weight of a series at a time step
MaxWeight == 1
\* largest --num-windows, --test-window and --stride
MaxWindows == 3
MaxTestWindow == 2
MaxStride == 2
\* duration of the panels the weight tensors are drawn for
WeightT == 3
\* largest size of an axis of the tensors handed to a metric
MaxDim == 2
\* most bottom-level series, largest sale of the last day, most days of
\* history before the last 28, longest aggregate forecast
MaxBottom == 2
MaxSale == 3
MaxOlder == 1
MaxHorizon == 2

(***************************************************************************)
(* Program constants.                                                      *)
(***************************************************************************)
\* the response is univariate: the channel axis has size 1
Channels == 1
\* the number of quantile levels of the pinball loss
NumQuantiles == 9
\* the days of sales the proportions are computed from
LastDays == 28

(***************************************************************************)
(* Integer helpers.                                                        *)
(***************************************************************************)
Abs(i) == IF i < 0 THEN -i ELSE i

Max2(a, b) == IF a >= b THEN a ELSE b

RECURSIVE Gcd(_, _)
Gcd(a, b) == IF b = 0 THEN a ELSE Gcd(b, a % b)

RECURSIVE SumSeq(_)
SumSeq(s) == IF s = <<>> THEN 0 ELSE Head(s) + SumSeq(Tail(s))

RECURSIVE ProdSeq(_)
ProdSeq(s) == IF s = <<>> THEN 1 ELSE Head(s) * ProdSeq(Tail(s))

IsSquare(n) == \E q \in 0..n : q * q = n

ISqrt(n) == CHOOSE q \in 0..n : q * q = n

(***************************************************************************)
(* Floating-point values: [k, n, d, r].  k = "fin": the value is           *)
(* sign(n) * (|n|/d)^(1/r), d > 0, gcd(n, d) = 1, r \in {1, 2}.            *)
(* k = "inf": n = 1 is +inf, n = -1 is -inf.  k = "nan": NaN.              *)
(***************************************************************************)
NaN == [k |-> "nan", n |-> 0, d |-> 1, r |-> 1]

PosInf == [k |-> "inf", n |-> 1, d |-> 1, r |-> 1]

NegInf == [k |-> "inf", n |-> -1, d |-> 1, r |-> 1]

Fin(n, d) ==
    LET g == Gcd(Abs(n), Abs(d))
        s == IF d < 0 THEN -1 ELSE 1
    IN  [k |-> "fin", n |-> (s * n) \div g, d |-> (s * d) \div g, r |-> 1]

FromInt(i) == Fin(i, 1)

Zero == FromInt(0)

One == FromInt(1)

Sign(x) == IF x.n > 0 THEN 1 ELSE IF x.n < 0 THEN -1 ELSE 0

IsFinite(x) == x.k = "fin"

IsPositive(x) == x.k # "nan" /\ x.n > 0

\* the square root of the non-negative fraction n/d
Root(n, d) ==
    LET q == Fin(n, d)
    IN  IF IsSquare(q.n) /\ IsSquare(q.d)
        THEN Fin(ISqrt(q.n), ISqrt(q.d))
        ELSE [q EXCEPT !.r = 2]

\* x * y for rational x, y (r = 1)
FMul(x, y) ==
    IF x.k = "nan" \/ y.k = "nan" THEN NaN
    ELSE IF x.k = "inf" \/ y.k = "inf"
         THEN IF Sign(x) * Sign(y) = 0 THEN NaN
              ELSE IF Sign(x) * Sign(y) > 0 THEN PosInf ELSE NegInf
    ELSE Fin(x.n * y.n, x.d * y.d)

\* x + y for rational x, y (r = 1)
FAdd(x, y) ==
    IF x.k = "nan" \/ y.k = "nan" THEN NaN
    ELSE IF x.k = "inf" /\ y.k = "inf"
         THEN IF x.n = y.n THEN x ELSE NaN
    ELSE IF x.k = "inf" THEN x
    ELSE IF y.k = "inf" THEN y
    ELSE Fin(x.n * y.d + y.n * x.d, x.d * y.d)

\* x / y for rational x (r = 1); y may be a tagged square root.
\* A zero divisor is +0: the only zero the callers produce is a - a.
FDiv(x, y) ==
    IF x.k = "nan" \/ y.k = "nan" THEN NaN
    ELSE IF y.k = "inf" THEN (IF x.k = "inf" THEN NaN ELSE Zero)
    ELSE IF x.k = "inf"
         THEN IF Sign(x) * (IF y.n < 0 THEN -1 ELSE 1) > 0 THEN PosInf ELSE NegInf
    ELSE IF y.n = 0
         THEN IF x.n = 0 THEN NaN ELSE IF x.n > 0 THEN PosInf ELSE NegInf
    ELSE IF y.r = 1 THEN Fin(x.n * y.d, x.d * y.n)
    ELSE LET q == Root(x.n * x.n * y.d, x.d * x.d * y.n)
         IN  [q EXCEPT !.n = Sign(x) * q.n]

\* x.pow(1 / norm) for rational x
PowInv(x, norm) ==
    IF norm = 1 THEN x
    ELSE IF x.k = "nan" THEN NaN
    ELSE IF x.n < 0 THEN NaN
    ELSE IF x.k = "inf" THEN PosInf
    ELSE Root(x.n, x.d)

\* the class of a float sum of the addends, with the addends themselves
RECURSIVE SumClass(_)
SumClass(s) ==
    IF s = <<>> THEN "fin"
    ELSE LET h == Head(s)
             t == SumClass(Tail(s))
         IN  IF h.k = "nan" \/ t = "nan" THEN "nan"
             ELSE IF h.k = "fin" THEN t
             ELSE LET me == IF h.n > 0 THEN "inf" ELSE "-inf"
                  IN  IF t = "fin" \/ t = me THEN me ELSE "nan"

(***************************************************************************)
(* Tensors of rank 0, 1 or 2 over floating-point values, and the error     *)
(* outcomes of tensor operations.                                          *)
(***************************************************************************)
T0(x) == [err |-> "none", rank |-> 0, v |-> x]

T1(s) == [err |-> "none", rank |-> 1, v |-> s]

T2(m) == [err |-> "none", rank |-> 2, v |-> m]

Raise(e) == [err |-> e, rank |-> 0, v |-> NaN]

\* a[i] for a Python index i >= 0: an int index into the first axis
Index(a, i) ==
    IF a.err # "none" THEN a
    ELSE IF a.rank = 0 THEN Raise("IndexError")
    ELSE IF i >= Len(a.v) THEN Raise("IndexError")
    ELSE IF a.rank = 1 THEN T0(a.v[i + 1])
    ELSE T1(a.v[i + 1])

\* the elementwise operation op of two floats: "mul" is *, "div" is /
Elementwise(op, x, y) == IF op = "mul" THEN FMul(x, y) ELSE FDiv(x, y)

\* the broadcast of two vectors
Zip(op, s, t) ==
    IF Len(s) = Len(t) THEN T1([i \in 1..Len(s) |-> Elementwise(op, s[i], t[i])])
    ELSE IF Len(s) = 1 THEN T1([i \in 1..Len(t) |-> Elementwise(op, s[1], t[i])])
    ELSE IF Len(t) = 1 THEN T1([i \in 1..Len(s) |-> Elementwise(op, s[i], t[1])])
    ELSE Raise("RuntimeError")

\* an elementwise operation with broadcasting; b has rank 0 or 1
Broadcast(op, a, b) ==
    IF a.err # "none" THEN a
    ELSE IF b.err # "none" THEN b
    ELSE IF a.rank = 0 /\ b.rank = 0 THEN T0(Elementwise(op, a.v, b.v))
    ELSE IF a.rank = 0 THEN T1([i \in 1..Len(b.v) |-> Elementwise(op, a.v, b.v[i])])
    ELSE IF a.rank = 1 /\ b.rank = 0 THEN T1([i \in 1..Len(a.v) |-> Elementwise(op, a.v[i], b.v)])
    ELSE IF a.rank = 1 THEN Zip(op, a.v, b.v)
    ELSE LET rows == [i \in 1..Len(a.v) |->
                        IF b.rank = 0
                        THEN T1([j \in 1..Len(a.v[i]) |-> Elementwise(op, a.v[i][j], b.v)])
                        ELSE Zip(op, a.v[i], b.v)]
         IN  IF \E i \in 1..Len(rows) : rows[i].err # "none"
             THEN Raise("RuntimeError")
             ELSE T2([i \in 1..Len(rows) |-> rows[i].v])

RECURSIVE Flatten(_)
Flatten(m) == IF m = <<>> THEN <<>> ELSE Head(m) \o Flatten(Tail(m))

\* a.sum().cpu().item(): the addends and the class of their float sum
SumItem(a) ==
    IF a.err # "none" THEN [err |-> a.err, k |-> "nan", addends |-> <<>>]
    ELSE LET s == IF a.rank = 0 THEN <<a.v>>
                  ELSE IF a.rank = 1 THEN a.v ELSE Flatten(a.v)
         IN  [err |-> "none", k |-> SumClass(s), addends |-> s]

(***************************************************************************)
(* _get_metric_scale.  A series x is a sequence over time of rows, a row   *)
(* a sequence over the channels; train_data is a tensor of series (rank 0: *)
(* no batch dimension, rank 1: one batch dimension).                       *)
(***************************************************************************)
METRICS == <<"mae", "rmse", "crps", "pl">>

MetricNames == {METRICS[i] : i \in 1..Len(METRICS)}

\* train_data.sum(-1).cumsum(-2) at time t
CumSum(x, t) == SumSeq([u \in 1..t |-> SumSeq(x[u])])

\* train_data - pad(train_data[..., :-1, :], (0, 0, 1, 0))
Lag1(x, t, c) == x[t][c] - (IF t = 1 THEN 0 ELSE x[t - 1][c])

\* (cumsum != 0).sum(-2)
ActiveTime(x) == Cardinality({t \in 1..Len(x) : CumSum(x, t) # 0})

\* the gather index duration - active_time (0-based)
StartIndex(x) == Len(x) - ActiveTime(x)

Norm(metric) == IF metric = "rmse" THEN 2 ELSE 1

AbsPow(i, norm) == IF norm = 2 THEN i * i ELSE Abs(i)

\* a slip: the start value is not taken out
Lag1NormWithStart(x, c, norm) ==
    SumSeq([t \in 1..Len(x) |-> AbsPow(Lag1(x, t, c), norm)])

\* lag1.abs().pow(norm).sum(-2) - start_value.abs().pow(norm), channel c
Lag1Norm(x, c, norm) ==
    SumSeq([t \in 1..Len(x) |-> AbsPow(Lag1(x, t, c), norm)])
        - AbsPow(x[StartIndex(x) + 1][c], norm)

\* the scale of one series; the gather has succeeded
SeriesScale(metric, x) ==
    LET norm == Norm(metric)
        mean == Fin(SumSeq([c \in 1..Channels |-> Lag1Norm(x, c, norm)]), Channels)
    IN  PowInv(FDiv(mean, FromInt(ActiveTime(x) - 1)), norm)

\* gather raises when an index equals the size of the time axis
GatherFails(x) == StartIndex(x) >= Len(x)

GetMetricScale(metric, train_data) ==
    IF train_data.rank = 0
    THEN IF GatherFails(train_data.v) THEN Raise("IndexError")
         ELSE T0(SeriesScale(metric, train_data.v))
    ELSE IF \E i \in 1..Len(train_data.v) : GatherFails(train_data.v[i])
         THEN Raise("IndexError")
         ELSE T1([i \in 1..Len(train_data.v) |-> SeriesScale(metric, train_data.v[i])])

\* (weight * value / scale).sum().cpu().item()
EvalWeightedScale(metric, value, train_data, weight) ==
    LET scale == GetMetricScale(metric, train_data)
    IN  IF scale.err # "none" THEN SumItem(scale)
        ELSE SumItem(Broadcast("div", Broadcast("mul", weight, value), scale))

(***************************************************************************)
(* m5_backtest and the backtest branch of main.                            *)
(***************************************************************************)
VARIABLES
    args,              \* main: the parsed command line
    data,              \* the series tensor, [..., duration, channels]
    weight,            \* m5_backtest's local `weight`
    kwargs,            \* m5_backtest's **kwargs
    min_train_window,  \* m5_backtest's local `min_train_window`
    windows,           \* the list backtest() returned
    i,                 \* the position of `for window in windows`
    weight_arg,        \* the `weight` argument m5_backtest was called with
    pc,                \* where the program is
    err                \* the exception that ended it

btVars == <<args, data, weight, kwargs, min_train_window, windows, i,
            weight_arg, pc, err>>

\* a direct call of _get_metric_scale or eval_weighted_scale
VARIABLES
    ews_call,          \* the arguments: metric, value, train_data, weight
    ews_scale,         \* what _get_metric_scale returned
    ews_ret,           \* what eval_weighted_scale returned
    ews_pc

ewsVars == <<ews_call, ews_scale, ews_ret, ews_pc>>

\* a direct call of one of the metrics
VARIABLES
    m_pred,            \* pred.shape
    m_truth,           \* truth.shape
    m_fn,              \* the metric called
    m_ret,             \* the shape it returned, or the error it raised
    m_pc

mVars == <<m_pred, m_truth, m_fn, m_ret, m_pc>>

\* the submit branch of main
VARIABLES
    sales,             \* bottom-level sales, one row per series
    pred,              \* the aggregate forecast, one value per day
    proportion,
    prediction,
    td_pc

tdVars == <<sales, pred, proportion, prediction, td_pc>>

None == [err |-> "none", rank |-> -1, v |-> NaN]

IsNone(a) == a.rank = -1

NoArgs == [submit |-> FALSE, num_windows |-> 0, test_window |-> 0, stride |-> 0]

DEFAULT_METRICS == METRICS

WsKey(metric) ==
    CASE metric = "mae" -> "ws_mae"
      [] metric = "rmse" -> "ws_rmse"
      [] metric = "crps" -> "ws_crps"
      [] metric = "pl" -> "ws_pl"

Get(kw, key, default) == IF key \in DOMAIN kw THEN kw[key] ELSE default

Put(kw, key, val) == [k \in DOMAIN kw \cup {key} |-> IF k = key THEN val ELSE kw[k]]

\* the series of a data tensor, and data.size(-2)
SeriesOf(d) == IF d.rank = 0 THEN <<d.v>> ELSE d.v

Duration(d) == Len(SeriesOf(d)[1])

\* data[..., :t1, :]
SliceTime(d, t1) ==
    IF d.rank = 0 THEN T0(SubSeq(d.v, 1, t1))
    ELSE T1([s \in 1..Len(d.v) |-> SubSeq(d.v[s], 1, t1)])

\* data.new_ones(data.shape[:-1])
NewOnes(d) ==
    IF d.rank = 0 THEN T1([t \in 1..Duration(d) |-> One])
    ELSE T2([s \in 1..Len(d.v) |-> [t \in 1..Duration(d) |-> One]])

\* weight.shape == data.shape[:-1]
SameShape(w, d) ==
    /\ w.rank = d.rank + 1
    /\ IF w.rank = 1 THEN Len(w.v) = Duration(d)
       ELSE /\ Len(w.v) = Len(d.v)
            /\ \A s \in 1..Len(w.v) : Len(w.v[s]) = Duration(d)

RECURSIVE FSum(_)
FSum(s) == IF s = <<>> THEN Zero ELSE FAdd(Head(s), FSum(Tail(s)))

\* a slip: the sum over every axis, weight.sum()
TotalSums(w) ==
    IF w.rank = 1 THEN T1([t \in 1..Len(w.v) |-> FSum(w.v)])
    ELSE T1([t \in 1..Len(w.v[1]) |-> FSum(Flatten(w.v))])

\* weight.reshape((-1, data.shape[-2])).sum(0)
ColumnSums(w) ==
    IF w.rank = 1 THEN T1(w.v)
    ELSE T1([t \in 1..Len(w.v[1]) |-> FSum([s \in 1..Len(w.v) |-> w.v[s][t]])])

\* weight / weight.reshape((-1, data.shape[-2])).sum(0)
Normalize(w) == Broadcast("div", w, ColumnSums(w))

\* (data.sum(-1).cumsum(-1) == 0).sum(-1), one series
ZeroTime(x) == Cardinality({t \in 1..Len(x) : CumSum(x, t) = 0})

RECURSIVE MaxSeq(_)
MaxSeq(s) == IF Len(s) = 1 THEN s[1] ELSE Max2(Head(s), MaxSeq(Tail(s)))

\* a slip: a margin of 1 step
MinTrainWindowPlusOne(d) ==
    MaxSeq([s \in 1..Len(SeriesOf(d)) |-> ZeroTime(SeriesOf(d)[s])]) + 1

\* (...).max().cpu().item() + 2
MinTrainWindow(d) ==
    MaxSeq([s \in 1..Len(SeriesOf(d)) |-> ZeroTime(SeriesOf(d)[s])]) + 2

\* range(start, stop, stride)
Range(start, stop, stride) ==
    LET n == IF stop <= start THEN 0 ELSE (stop - start + stride - 1) \div stride
    IN  [j \in 1..n |-> start + (j - 1) * stride]

\* the window boundaries of pyro's backtest(): t1 runs over
\* range(min_train_window, duration - test_window + 1, stride), t0 = 0
Backtest(d, kw) ==
    LET duration == Duration(d)
        stop == IF "test_window" \in DOMAIN kw THEN duration - kw.test_window + 1
                ELSE duration
        t1s == Range(Get(kw, "min_train_window", 1), stop, Get(kw, "stride", 1))
    IN  [j \in 1..Len(t1s) |->
            [t0 |-> 0, t1 |-> t1s[j],
             t2 |-> IF "test_window" \in DOMAIN kw THEN t1s[j] + kw.test_window
                    ELSE duration]]

\* the value of a raw metric: one number per series (the batch shape)
RawVals == {0, 1}

RawMetric(d, r) ==
    IF d.rank = 0 THEN T0(FromInt(r)) ELSE T1([s \in 1..Len(d.v) |-> FromInt(r)])

WithMetrics(w, d, names, r) ==
    [k \in DOMAIN w \cup {names[j] : j \in 1..Len(names)} |->
        IF k \in DOMAIN w THEN w[k] ELSE RawMetric(d, r)]

\* the inner loop: window[f"ws_{metric}"] = eval_weighted_scale(...)
WsOf(window, names, train_data, w) ==
    [j \in 1..Len(names) |-> EvalWeightedScale(names[j], window[names[j]], train_data, w)]

WithWs(window, names, ws) ==
    [k \in DOMAIN window \cup {WsKey(names[j]) : j \in 1..Len(names)} |->
        IF \E j \in 1..Len(names) : k = WsKey(names[j])
        THEN ws[CHOOSE j \in 1..Len(names) : k = WsKey(names[j])]
        ELSE window[k]]

(***************************************************************************)
(* The inputs of the backtest.                                             *)
(***************************************************************************)
Values == (0 - MaxVal)..MaxVal

Rows(vals) == [1..Channels -> vals]

SeriesOfLen(T, vals) == [1..T -> Rows(vals)]

\* k leading zeros, then 1, 2, 3, ...
Ramp(T, k) == [t \in 1..T |-> [c \in 1..Channels |-> IF t <= k THEN 0 ELSE t - k]]

Ramps(T) == {Ramp(T, k) : k \in 0..T}

\* the shortest series main can cut MaxWindows windows from
MainT == 2 + MaxTestWindow + (MaxWindows - 1) * MaxStride

MainArgs ==
    [submit : {FALSE}, num_windows : 1..MaxWindows, test_window : 1..MaxTestWindow,
     stride : 1..MaxStride]

MainData == {T0(x) : x \in Ramps(MainT)}

GuardData ==
    UNION {{T0(x) : x \in SeriesOfLen(T, Values)}
           \cup {T1(<<x, Ramp(T, k)>>) : x \in SeriesOfLen(T, Values), k \in {0, 1, T}}
           : T \in 1..MaxT}

GuardKwargs ==
    {[test_window |-> 1, stride |-> 1]}
    \cup {[test_window |-> 1, stride |-> 1, min_train_window |-> m] : m \in 1..MaxT}

WeightVals == {FromInt(w) : w \in 0..MaxWeight}

WeightData == {T0(Ramp(WeightT, 0)), T1(<<Ramp(WeightT, 0), Ramp(WeightT, 1)>>)}

WeightsFor(d) ==
    IF d.rank = 0
    THEN {T1(w) : w \in [1..WeightT -> WeightVals]}
         \cup {T1([t \in 1..(WeightT + 1) |-> One])}
    ELSE {T2(w) : w \in [1..Len(d.v) -> [1..WeightT -> WeightVals]]}

WeightKwargs ==
    {[test_window |-> 1, stride |-> 1],
     [test_window |-> 1, stride |-> 1, metrics |-> <<"rmse", "pl">>]}

EwsIdle ==
    /\ ews_call = <<>>
    /\ ews_scale = None
    /\ ews_ret = <<>>
    /\ ews_pc = "idle"

MIdle ==
    /\ m_pred = <<>>
    /\ m_truth = <<>>
    /\ m_fn = "none"
    /\ m_ret = <<>>
    /\ m_pc = "idle"

TdIdle ==
    /\ sales = <<>>
    /\ pred = <<>>
    /\ proportion = <<>>
    /\ prediction = <<>>
    /\ td_pc = "idle"

InitLocals ==
    /\ EwsIdle /\ MIdle /\ TdIdle
    /\ min_train_window = 0
    /\ windows = <<>>
    /\ i = 0
    /\ weight_arg = weight
    /\ err = "none"

InitMain ==
    /\ pc = "main"
    /\ args \in MainArgs
    /\ data \in MainData
    /\ weight = None
    /\ kwargs = [stride |-> 1]
    /\ InitLocals

InitGuard ==
    /\ pc = "m5_backtest"
    /\ args = NoArgs
    /\ data \in GuardData
    /\ weight = None
    /\ kwargs \in GuardKwargs
    /\ InitLocals

InitWeight ==
    /\ pc = "m5_backtest"
    /\ args = NoArgs
    /\ data \in WeightData
    /\ weight \in WeightsFor(data)
    /\ kwargs \in WeightKwargs
    /\ InitLocals

(***************************************************************************)
(* The steps of main (backtest branch) and of m5_backtest.                 *)
(***************************************************************************)
\* model1.py 160-169: the smallest training window, and the call
Main ==
    /\ pc = "main"
    /\ ~args.submit
    /\ kwargs' = [min_train_window |->
                      Duration(data) - args.test_window
                          - (args.num_windows - 1) * args.stride,
                  test_window |-> args.test_window,
                  stride |-> args.stride]
    /\ pc' = "m5_backtest"
    /\ UNCHANGED <<args, data, weight, min_train_window, windows, i, weight_arg, err>>
    /\ UNCHANGED <<ewsVars, mVars, tdVars>>

\* evaluate.py 90-94: the default weight, the shape assertion, the normalization
NormalizeWeight ==
    /\ pc = "m5_backtest"
    /\ LET w == IF IsNone(weight) THEN NewOnes(data) ELSE weight
       IN  IF SameShape(w, data)
           THEN /\ weight' = Normalize(w)
                /\ pc' = "metrics"
                /\ err' = err
           ELSE /\ pc' = "error"
                /\ err' = "AssertionError"
                /\ weight' = weight
    /\ UNCHANGED <<args, data, kwargs, min_train_window, windows, i, weight_arg>>
    /\ UNCHANGED <<ewsVars, mVars, tdVars>>

\* evaluate.py 96-103: the default metrics, the smallest training window
AdjustMinTrainWindow ==
    /\ pc = "metrics"
    /\ min_train_window' = MinTrainWindow(data)
    /\ LET kw == IF "metrics" \in DOMAIN kwargs THEN kwargs
                 ELSE Put(kwargs, "metrics", DEFAULT_METRICS)
       IN  kwargs' = IF Get(kw, "min_train_window", 1) < MinTrainWindow(data)
                     THEN Put(kw, "min_train_window", MinTrainWindow(data))
                     ELSE kw
    /\ pc' = "backtest"
    /\ UNCHANGED <<args, data, weight, windows, i, weight_arg, err>>
    /\ UNCHANGED <<ewsVars, mVars, tdVars>>

\* evaluate.py 105: the forecaster scores every window; the raw metric values
\* are whatever it produced
CallBacktest ==
    /\ pc = "backtest"
    /\ \E r \in RawVals :
          windows' = [j \in 1..Len(Backtest(data, kwargs)) |->
                         WithMetrics(Backtest(data, kwargs)[j], data, kwargs.metrics, r)]
    /\ i' = 1
    /\ pc' = "loop"
    /\ UNCHANGED <<args, data, weight, kwargs, min_train_window, weight_arg, err>>
    /\ UNCHANGED <<ewsVars, mVars, tdVars>>

\* evaluate.py 106-113: one iteration of `for window in windows`
ProcessWindow ==
    /\ pc = "loop"
    /\ i <= Len(windows)
    /\ LET window == windows[i]
           train_data == SliceTime(data, window.t1)
           w == Index(weight, window.t1 - 1)
           ws == WsOf(window, kwargs.metrics, train_data, w)
           bad == {j \in 1..Len(ws) : ws[j].err # "none"}
       IN  IF w.err # "none"
           THEN /\ pc' = "error"
                /\ err' = w.err
                /\ UNCHANGED <<weight, windows, i>>
           ELSE IF bad # {}
           THEN /\ pc' = "error"
                /\ err' = ws[CHOOSE j \in bad : \A l \in bad : j <= l].err
                /\ weight' = w
                /\ UNCHANGED <<windows, i>>
           ELSE /\ weight' = w
                /\ windows' = [windows EXCEPT ![i] = WithWs(window, kwargs.metrics, ws)]
                /\ i' = i + 1
                /\ UNCHANGED <<pc, err>>
    /\ UNCHANGED <<args, data, kwargs, min_train_window, weight_arg>>
    /\ UNCHANGED <<ewsVars, mVars, tdVars>>

\* evaluate.py 115
Return ==
    /\ pc = "loop"
    /\ i > Len(windows)
    /\ pc' = "done"
    /\ UNCHANGED <<args, data, weight, kwargs, min_train_window, windows, i,
                   weight_arg, err>>
    /\ UNCHANGED <<ewsVars, mVars, tdVars>>

\* model1.py 171-178: dump the windows, print the ws_rmse and ws_pl statistics
Report ==
    /\ pc = "done"
    /\ args.num_windows > 0
    /\ IF \A j \in 1..Len(windows) : {"ws_rmse", "ws_pl"} \subseteq DOMAIN windows[j]
       THEN pc' = "reported" /\ err' = err
       ELSE pc' = "error" /\ err' = "KeyError"
    /\ UNCHANGED <<args, data, weight, kwargs, min_train_window, windows, i, weight_arg>>
    /\ UNCHANGED <<ewsVars, mVars, tdVars>>

Init == InitMain \/ InitGuard \/ InitWeight

Next == Main \/ NormalizeWeight \/ AdjustMinTrainWindow \/ CallBacktest
            \/ ProcessWindow \/ Return \/ Report

vars == <<btVars, ewsVars, mVars, tdVars>>

Spec == Init /\ [][Next]_vars

(***************************************************************************)
(* Properties of the backtest.                                             *)
(***************************************************************************)
TensorEq(a, b) == a.err = b.err /\ a.rank = b.rank /\ a.v = b.v

\* the weight m5_backtest normalizes: the argument, or the default all-ones
RawWeight == IF IsNone(weight_arg) THEN NewOnes(data) ELSE weight_arg

\* column t (0-based) of a weight tensor: one weight per series
TimeColumn(w, t) ==
    IF w.rank = 1 THEN T0(w.v[t + 1]) ELSE T1([s \in 1..Len(w.v) |-> w.v[s][t + 1]])

Ended == pc \in {"done", "reported", "error"}

\* main's request was not raised by leading zeros
NotRaised ==
    MinTrainWindow(data)
        <= Duration(data) - args.test_window - (args.num_windows - 1) * args.stride

\* C1: a backtest run through main (default weight, a minimum training window
\* of T - test_window - (num_windows - 1) * stride that leading zeros do not
\* raise) ends without error and returns exactly num_windows records, their
\* t1 increasing by stride, each with a ws_<metric> entry for every metric.
C1_BacktestCompletes ==
    (args.num_windows > 0 /\ NotRaised /\ Ended) =>
        /\ pc # "error"
        /\ Len(windows) = args.num_windows
        /\ \A j \in 1..Len(windows) :
              /\ windows[j].t1 = Duration(data) - args.test_window
                                    - (args.num_windows - j) * args.stride
              /\ \A m \in 1..Len(kwargs.metrics) :
                    WsKey(kwargs.metrics[m]) \in DOMAIN windows[j]

\* C2: every window the loop handles, first or later, is scored with the
\* normalized weight at time index t1 - 1 (one weight per series), sliced
\* from the full normalized weight and not from an earlier window's slice.
C2_WeightResliced ==
    /\ (pc = "loop" /\ i >= 2) =>
          TensorEq(weight, TimeColumn(Normalize(RawWeight), windows[i - 1].t1 - 1))
    /\ (pc = "error" /\ Len(windows) > 0) => err # "IndexError"

\* C3: once m5_backtest has raised min_train_window to at least the largest
\* number of zero-cumulative-sum steps of a series plus 2, every training
\* slice data[..., :t1, :] with min_train_window <= t1 <= duration leaves
\* every series an active_time of at least 2.
C3_ActiveTimeAtLeastTwo ==
    min_train_window > 0 =>
        /\ Get(kwargs, "min_train_window", 1) >= min_train_window
        /\ \A t1 \in Get(kwargs, "min_train_window", 1)..Duration(data) :
              \A s \in 1..Len(SeriesOf(data)) :
                  ActiveTime(SubSeq(SeriesOf(data)[s], 1, t1)) >= 2

\* the guard raised the request of a caller whose series has a cumulative
\* sum that returns to zero, and a window was scored
C3_Witness ==
    /\ pc = "loop"
    /\ i >= 2
    /\ min_train_window > 2
    /\ Get(kwargs, "min_train_window", 1) = min_train_window
    /\ min_train_window < Duration(data)
    /\ \E t \in 2..Duration(data) :
          /\ CumSum(SeriesOf(data)[1], t) = 0
          /\ CumSum(SeriesOf(data)[1], t - 1) # 0

\* C8 as stated: after the normalization the weights of every time step sum
\* to 1 over the series, whatever the non-negative weight tensor.
C8_ColumnsSumToOne ==
    pc = "metrics" =>
        \A t \in 1..Duration(data) :
            FSum(SeriesOf(TimeColumn(weight, t - 1))) = One

\* C8 amended: after the normalization the weights of every time step whose
\* raw weights have a positive sum over the series sum to 1; the weights of a
\* time step whose raw weights are all zero are NaN.
C8_PositiveColumnsSumToOne ==
    pc = "metrics" =>
        \A t \in 1..Duration(data) :
            IF IsPositive(FSum(SeriesOf(TimeColumn(RawWeight, t - 1))))
            THEN FSum(SeriesOf(TimeColumn(weight, t - 1))) = One
            ELSE \A s \in 1..Len(SeriesOf(TimeColumn(weight, t - 1))) :
                    SeriesOf(TimeColumn(weight, t - 1))[s] = NaN

\* a panel of two series: a step with equal weights, a step with one zero
C8_Witness ==
    /\ pc = "metrics"
    /\ weight_arg.rank = 2
    /\ \E t \in 1..Duration(data) :
          /\ weight_arg.v[1][t] = One /\ weight_arg.v[2][t] = One
          /\ weight.v[1][t] = Fin(1, 2)
    /\ \E t \in 1..Duration(data) :
          /\ weight_arg.v[1][t] = Zero /\ weight_arg.v[2][t] = One
          /\ weight.v[2][t] = One

(***************************************************************************)
(* Direct calls of _get_metric_scale and eval_weighted_scale.              *)
(***************************************************************************)
ScaleData ==
    UNION {{T0(x) : x \in SeriesOfLen(T, Values)}
           \cup {T1(<<x, Ramp(T, 0)>>) : x \in SeriesOfLen(T, Values)}
           : T \in 1..MaxT}

\* normalized weights of the series of train_data
ScaleWeights(d) ==
    IF d.rank = 0 THEN {T0(One)}
    ELSE {T1(<<Fin(1, 2), Fin(1, 2)>>), T1(<<Zero, One>>)}

InitScale ==
    /\ \E d \in ScaleData, m \in MetricNames, r \in RawVals :
          \E w \in ScaleWeights(d) :
              ews_call = [metric |-> m, value |-> RawMetric(d, r),
                          train_data |-> d, weight |-> w]
    /\ ews_scale = None
    /\ ews_ret = <<>>
    /\ ews_pc = "call"
    /\ MIdle /\ TdIdle
    /\ args = NoArgs
    /\ data = None
    /\ weight = None
    /\ kwargs = <<>>
    /\ min_train_window = 0
    /\ windows = <<>>
    /\ i = 0
    /\ weight_arg = None
    /\ pc = "idle"
    /\ err = "none"

\* evaluate.py 60-69
CallGetMetricScale ==
    /\ ews_pc = "call"
    /\ ews_scale' = GetMetricScale(ews_call.metric, ews_call.train_data)
    /\ ews_pc' = IF ews_scale'.err = "none" THEN "scaled" ELSE "raised"
    /\ UNCHANGED <<ews_call, ews_ret>>
    /\ UNCHANGED <<btVars, mVars, tdVars>>

\* evaluate.py 72-75
CallEvalWeightedScale ==
    /\ ews_pc = "call"
    /\ ews_scale' = GetMetricScale(ews_call.metric, ews_call.train_data)
    /\ ews_ret' = EvalWeightedScale(ews_call.metric, ews_call.value,
                                    ews_call.train_data, ews_call.weight)
    /\ ews_pc' = IF ews_ret'.err = "none" THEN "returned" ELSE "raised"
    /\ UNCHANGED ews_call
    /\ UNCHANGED <<btVars, mVars, tdVars>>

NextScale == CallGetMetricScale \/ CallEvalWeightedScale

SpecScale == InitScale /\ [][NextScale]_vars

(***************************************************************************)
(* Properties of the scale.                                                *)
(***************************************************************************)
TrainSeries == SeriesOf(ews_call.train_data)

Scales == SeriesOf(ews_scale)

NonNegative(x) == \A t \in 1..Len(x) : \A c \in 1..Channels : x[t][c] >= 0

\* the first time step (1-based) with a non-zero cumulative sum, if any
HasActive(x) == \E t \in 1..Len(x) : CumSum(x, t) # 0

FirstActive(x) ==
    CHOOSE t \in 1..Len(x) :
        CumSum(x, t) # 0 /\ \A u \in 1..(t - 1) : CumSum(x, u) = 0

\* T - f, the number of steps from the first active one to the last
RefActiveTime(x) == IF HasActive(x) THEN Len(x) - FirstActive(x) + 1 ELSE 0

\* the mean of |x[t] - x[t-1]|^norm over the steps after the first active
\* one, to the power 1/norm (univariate data)
RefScale(metric, x) ==
    PowInv(Fin(SumSeq([t \in 1..Len(x) |->
                          IF t > FirstActive(x)
                          THEN AbsPow(x[t][1] - x[t - 1][1], Norm(metric))
                          ELSE 0]),
               RefActiveTime(x) - 1),
           Norm(metric))

\* the series does not change after the step the gather picks
ConstantWhenActive(x) ==
    \A t \in (StartIndex(x) + 2)..Len(x) : x[t] = x[t - 1]

\* C7 as stated: a series with at least 2 active steps has a strictly
\* positive scale, whatever the metric.
C7_ScalePositive ==
    ews_pc = "scaled" =>
        \A s \in 1..Len(TrainSeries) :
            ActiveTime(TrainSeries[s]) >= 2 =>
                IsFinite(Scales[s]) /\ IsPositive(Scales[s])

\* C7 amended: a series of non-negative values with at least 2 active steps
\* has a finite scale that is not negative, whatever the metric; it is 0
\* exactly when the series is constant from its first active step on, and
\* strictly positive otherwise.
C7_ScalePositiveUnlessConstant ==
    ews_pc = "scaled" =>
        \A s \in 1..Len(TrainSeries) :
            (NonNegative(TrainSeries[s]) /\ ActiveTime(TrainSeries[s]) >= 2) =>
                /\ IsFinite(Scales[s])
                /\ Scales[s].n >= 0
                /\ Scales[s].n = 0 <=> ConstantWhenActive(TrainSeries[s])

\* rmse on a panel: a series with a leading zero that is constant once
\* active (scale 0) beside a ramp (scale positive)
C7_Witness ==
    /\ ews_pc = "scaled"
    /\ ews_call.metric = "rmse"
    /\ ews_call.train_data.rank = 1
    /\ TrainSeries[1][1][1] = 0
    /\ NonNegative(TrainSeries[1])
    /\ ActiveTime(TrainSeries[1]) >= 2
    /\ Scales[1] = Zero
    /\ ActiveTime(TrainSeries[2]) >= 3
    /\ IsPositive(Scales[2])

\* C9: for a univariate integer series, values of either sign, with first
\* active index f and T - f >= 2, the scale is the mean over t = f+1..T-1 of
\* |x[t] - x[t-1]| (rmse: the square root of the mean of the squares).
C9_ScaleIsReference ==
    ews_pc = "scaled" =>
        \A s \in 1..Len(TrainSeries) :
            RefActiveTime(TrainSeries[s]) >= 2 =>
                Scales[s] = RefScale(ews_call.metric, TrainSeries[s])

\* C10: a series with active_time <= 1 (one active step, or none) makes
\* _get_metric_scale return a non-finite scale for it without raising, and
\* eval_weighted_scale return a non-finite value.
C10_DegenerateScaleNotFinite ==
    (\E s \in 1..Len(TrainSeries) : ActiveTime(TrainSeries[s]) <= 1) =>
        /\ ews_pc # "raised"
        /\ ews_pc = "scaled" =>
              \A s \in 1..Len(TrainSeries) :
                  ActiveTime(TrainSeries[s]) <= 1 => ~IsFinite(Scales[s])
        /\ ews_pc = "returned" => ews_ret.k # "fin"

(***************************************************************************)
(* The metrics, on the shapes of their arguments.  A shape is a sequence   *)
(* of axis sizes; a result is the shape returned or the error raised.      *)
(***************************************************************************)
Shape(sh) == [err |-> "none", shape |-> sh]

ShapeError(e) == [err |-> e, shape |-> <<>>]

\* axis j (from the right, 1 = last) of a shape, 1 where the shape is shorter
AxisR(sh, j) == IF j <= Len(sh) THEN sh[Len(sh) + 1 - j] ELSE 1

\* the shape of a - b: the axes are aligned on the right, and two axes fit
\* when they are equal or one of them is 1
BroadcastShapes(a, b) ==
    LET n == Max2(Len(a), Len(b))
    IN  IF \A j \in 1..n : AxisR(a, j) = AxisR(b, j) \/ AxisR(a, j) = 1 \/ AxisR(b, j) = 1
        THEN Shape([p \in 1..n |-> Max2(AxisR(a, n + 1 - p), AxisR(b, n + 1 - p))])
        ELSE ShapeError("RuntimeError")

\* truth.shape[:-2]
BatchShape(truth) == SubSeq(truth, 1, Len(truth) - 2)

\* x.reshape(truth.shape[:-2] + (-1,)).mean(-1)
ReshapeMean(x, truth) ==
    IF x.err # "none" THEN x
    ELSE IF ProdSeq(x.shape) % ProdSeq(BatchShape(truth)) = 0
    THEN Shape(BatchShape(truth))
    ELSE ShapeError("RuntimeError")

\* evaluate.py 13-18: the median over the samples, then pred - truth
EvalMae(p, truth) == ReshapeMean(BroadcastShapes(Tail(p), truth), truth)

\* evaluate.py 22-28: the mean over the samples, then pred - truth
EvalRmse(p, truth) == ReshapeMean(BroadcastShapes(Tail(p), truth), truth)

\* pyro's crps_empirical wants pred.shape[1:] to be truth.shape behind
\* axes of size 1
CrpsEmpirical(p, truth) ==
    IF /\ Len(p) - 1 >= Len(truth)
       /\ Tail(p) = [j \in 1..(Len(p) - 1 - Len(truth)) |-> 1] \o truth
    THEN Shape(Tail(p))
    ELSE ShapeError("ValueError")

\* evaluate.py 32-36
EvalCrps(p, truth) == ReshapeMean(CrpsEmpirical(p, truth), truth)

\* evaluate.py 40-49: the quantiles over the samples, pred - truth.unsqueeze(0),
\* the weights by torch.where, their product with the error, the mean over
\* the quantiles
EvalPl(p, truth) ==
    LET q == <<NumQuantiles>> \o Tail(p)
        error == BroadcastShapes(q, <<1>> \o truth)
        where == IF error.err # "none" THEN error ELSE BroadcastShapes(error.shape, q)
        mul == IF where.err # "none" THEN where
               ELSE BroadcastShapes(where.shape, error.shape)
    IN  ReshapeMean(IF mul.err # "none" THEN mul ELSE Shape(Tail(mul.shape)), truth)

Metric(fn, p, truth) ==
    CASE fn = "mae" -> EvalMae(p, truth)
      [] fn = "rmse" -> EvalRmse(p, truth)
      [] fn = "crps" -> EvalCrps(p, truth)
      [] fn = "pl" -> EvalPl(p, truth)

\* shapes [..., duration, channels] with at most one batch axis
Shapes == UNION {[1..n -> 1..MaxDim] : n \in 2..3}

InitMetrics ==
    /\ m_truth \in Shapes
    /\ m_pred \in {<<n>> \o sh : n \in 1..MaxDim, sh \in Shapes}
    /\ m_fn = "none"
    /\ m_ret = <<>>
    /\ m_pc = "call"
    /\ EwsIdle /\ TdIdle
    /\ args = NoArgs
    /\ data = None
    /\ weight = None
    /\ kwargs = <<>>
    /\ min_train_window = 0
    /\ windows = <<>>
    /\ i = 0
    /\ weight_arg = None
    /\ pc = "idle"
    /\ err = "none"

CallMetric(fn) ==
    /\ m_pc = "call"
    /\ m_fn' = fn
    /\ m_ret' = Metric(fn, m_pred, m_truth)
    /\ m_pc' = IF m_ret'.err = "none" THEN "returned" ELSE "raised"
    /\ UNCHANGED <<m_pred, m_truth>>
    /\ UNCHANGED <<btVars, ewsVars, tdVars>>

CallEvalMae == CallMetric("mae")

CallEvalRmse == CallMetric("rmse")

CallEvalCrps == CallMetric("crps")

CallEvalPl == CallMetric("pl")

NextMetrics == CallEvalMae \/ CallEvalRmse \/ CallEvalCrps \/ CallEvalPl

SpecMetrics == InitMetrics /\ [][NextMetrics]_vars

\* truth's (duration, channels) against the prediction's
TrailingAxesDiffer ==
    \E j \in 1..2 : AxisR(m_truth, j) # AxisR(Tail(m_pred), j)

\* C4: whenever truth's trailing two axes (duration, channels) differ from
\* the prediction's, every metric fails with a shape error; no such pair,
\* an axis of size 1 included, is broadcast into a result.
C4_MismatchRejected ==
    (m_pc \in {"returned", "raised"} /\ TrailingAxesDiffer) => m_pc = "raised"

(***************************************************************************)
(* The submit branch of main: the top-down accuracy submission.  The       *)
(* uncertainty submission that follows it (Poisson draws, quantiles) is    *)
(* not modelled.                                                           *)
(***************************************************************************)
\* sales[:, -28:], one row
LastRow(row) == SubSeq(row, Max2(1, Len(row) - LastDays + 1), Len(row))

\* sales_last28.sum(-1)
RowSums(s) == [j \in 1..Len(s) |-> SumSeq(LastRow(s[j]))]

\* a slip: the total of all days, not of the last 28
GrandTotalAllDays(s) == SumSeq([j \in 1..Len(s) |-> SumSeq(s[j])])

\* sales_last28.sum()
GrandTotal(s) == SumSeq(RowSums(s))

\* sales_last28.sum(-1) / sales_last28.sum()
Proportion(s) ==
    [j \in 1..Len(s) |-> FDiv(FromInt(RowSums(s)[j]), FromInt(GrandTotal(s)))]

\* proportion.ger(pred)
Ger(u, v) == [j \in 1..Len(u) |-> [t \in 1..Len(v) |-> FMul(u[j], v[t])]]

\* a row of L days: 1 a day before the last 28, then b a day, c the last day
SalesRow(L, b, c) ==
    [t \in 1..L |-> IF t = L THEN c ELSE IF t > L - LastDays THEN b ELSE 1]

SalesRows(L) == {SalesRow(L, b, c) : b \in 0..1, c \in 0..MaxSale}

SalesSet ==
    UNION {[1..M -> SalesRows(L)] :
              M \in 1..MaxBottom, L \in (LastDays - 1)..(LastDays + MaxOlder)}

PredVals == {FromInt(1), FromInt(100)}

PredSet == UNION {[1..H -> PredVals] : H \in 1..MaxHorizon}

InitTopDown ==
    /\ sales \in SalesSet
    /\ pred \in PredSet
    /\ proportion = <<>>
    /\ prediction = <<>>
    /\ td_pc = "submit"
    /\ EwsIdle /\ MIdle
    /\ args = [NoArgs EXCEPT !.submit = TRUE]
    /\ data = None
    /\ weight = None
    /\ kwargs = <<>>
    /\ min_train_window = 0
    /\ windows = <<>>
    /\ i = 0
    /\ weight_arg = None
    /\ pc = "idle"
    /\ err = "none"

\* model1.py 127-131: the proportions, the forecasts, the submission
Submit ==
    /\ td_pc = "submit"
    /\ args.submit
    /\ proportion' = Proportion(sales)
    /\ prediction' = Ger(Proportion(sales), pred)
    /\ td_pc' = "submitted"
    /\ UNCHANGED <<sales, pred>>
    /\ UNCHANGED <<btVars, ewsVars, mVars>>

NextTopDown == Submit

SpecTopDown == InitTopDown /\ [][NextTopDown]_vars

\* the forecasts of all bottom-level series at day t
Column(m, t) == [j \in 1..Len(m) |-> m[j][t]]

\* C5: when the sales of the last 28 days have a grand total of zero the
\* disaggregation is rejected: no proportion is obtained by dividing by the
\* zero total, and none is used for a forecast.
C5_ZeroTotalRejected ==
    GrandTotal(sales) = 0 =>
        /\ td_pc # "submitted"
        /\ \A j \in 1..Len(proportion) : proportion[j] # NaN
        /\ \A j \in 1..Len(prediction) :
              \A t \in 1..Len(prediction[j]) : prediction[j][t] # NaN

\* C6: with a non-zero grand total the proportions sum to 1 and the
\* disaggregation keeps the total: on every day the forecasts of the
\* bottom-level series sum to the aggregate forecast of that day.
C6_MassPreserved ==
    (td_pc = "submitted" /\ GrandTotal(sales) # 0) =>
        /\ Len(proportion) = Len(sales)
        /\ FSum(proportion) = One
        /\ Len(prediction) = Len(sales)
        /\ \A t \in 1..Len(pred) : FSum(Column(prediction, t)) = pred[t]

\* proportions [1/4, 3/4] from more than 28 days of sales, and an aggregate
\* forecast of 100 split into 25 and 75
C6_Witness ==
    /\ td_pc = "submitted"
    /\ Len(sales) = 2
    /\ Len(sales[1]) > LastDays
    /\ proportion = <<Fin(1, 4), Fin(3, 4)>>
    /\ pred[1] = FromInt(100)
    /\ Column(prediction, 1) = <<FromInt(25), FromInt(75)>>

=============================================================================
